---- MODULE Spec2Model ----
(***************************************************************************)
(* Model of the assessment header builder (createColumnHeaders and its     *)
(* prototype generators) of Tangerine-Reporting, and of the create-all     *)
(* command of its command line (cli.js).                                   *)
(*                                                                         *)
(* Strings built by template literals are kept as their parts:             *)
(*   header  `${var}_${name}_${opt}${suffix}`   or  `timestamp_${num}`     *)
(*   key     `${id}.${var}_${name}.${opt}${suffix}`                        *)
(* A part that is absent is the empty sequence, a part that is present is  *)
(* a one-element sequence (so '' and '_0' are different values).           *)
(*                                                                         *)
(* JavaScript runs one job at a time: `running` names the invocation whose *)
(* job is executing (0 when the event loop is free), and a job ends only   *)
(* at an await, a return or a throw.                                       *)
(***************************************************************************)
EXTENDS Integers, Sequences, FiniteSets, TLC

VARIABLES
    db,             \* the document store: the survey questions as it returns them
    data,           \* the implicit global `data` of `for (data of subtestData)`
    running,        \* the invocation whose job is executing, 0 when none is
    pc,             \* per invocation: where the invocation stands
    docId,          \* per invocation: parameter docId
    count,          \* per invocation: parameter count
    item,           \* per invocation: the assessment document retrieveDoc returned
    subtestData,    \* per invocation: the list getSubtests returned
    iter,           \* per invocation: elements the for-of iterator has handed out
    assessments,    \* per invocation: the accumulator `assessments`
    subtestCounts,  \* per invocation: the record `subtestCounts`
    pending,        \* per invocation: locals of the suspended createSurvey/createGrid
    promise,        \* per invocation: the promise createColumnHeaders returned
    options,        \* cli.js: the flags create-all was run with, NotRun before
    cliItem,        \* cli.js: the implicit global `item` of the four batch loops
    job,            \* cli.js: per flag, where the flag's batch loop stands
    dbUrlDefined    \* cli.js: whether the free identifier `dbUrl` resolves

builderVars == <<db, data, running, pc, docId, count, item, subtestData, iter,
                 assessments, subtestCounts, pending, promise>>

cliVars == <<options, cliItem, job, dbUrlDefined>>

vars == <<db, data, running, pc, docId, count, item, subtestData, iter,
          assessments, subtestCounts, pending, promise,
          options, cliItem, job, dbUrlDefined>>

(***************************************************************************)
(* Bounds and sample data.                                                 *)
(***************************************************************************)

\* longest subtest list getSubtests returns to invocation 1
MaxSubtests == 2

\* the two overlapping invocations: 1 is a call of the exported function with
\* any arguments, 2 is a call from a batch loop (generateAll), whose count is 0
Inv == {1, 2}

\* what `${x}` prints for a missing field
Undefined == "undefined"

\* an absent optional value and a present one
None == <<>>
Some(x) == <<x>>

RECURSIVE SeqsUpTo(_, _)
\* the sequences over S of length at most n
SeqsUpTo(S, n) ==
    IF n = 0 THEN {<<>>}
    ELSE LET shorter == SeqsUpTo(S, n - 1)
         IN  shorter \cup {Append(s, x) : s \in {t \in shorter : Len(t) = n - 1}, x \in S}

RECURSIVE Perms(_)
\* the orders in which the store can return the documents of the set S
Perms(S) ==
    IF S = {} THEN {<<>>}
    ELSE UNION {{<<x>> \o t : t \in Perms(S \ {x})} : x \in S}

(***************************************************************************)
(* Documents of the store.                                                 *)
(***************************************************************************)

\* the kinds of subtest document a list is drawn from: the eight recognised
\* prototypes, a location without `levels`, an unrecognised prototype and a
\* document without a prototype field
Kinds == {"location", "locationNoLevels", "datetime", "consent", "id", "survey",
          "grid", "gps", "camera", "html", "noPrototype"}

PrototypeOf(kind) ==
    CASE kind = "locationNoLevels" -> "location"
      [] kind = "noPrototype"      -> Undefined
      [] OTHER                     -> kind

\* the assessment documents a caller asks for: a1 is an assessment, d1 a document
\* whose assessmentId names another document, x1 a document without assessmentId,
\* a2 the assessment the batch loop is processing
DocIdsOf(p) == IF p = 1 THEN {"a1", "d1", "x1"} ELSE {"a2"}

\* the occurrence counts a caller passes: the batch loop always passes 0
CountsOf(p) == IF p = 1 THEN {0, 2} ELSE {0}

AllDocIds == UNION {DocIdsOf(p) : p \in Inv}

AssessmentDocs ==
    [id \in AllDocIds |->
        [assessmentId |-> CASE id = "a1" -> Some("a1")
                             [] id = "d1" -> Some("a1")
                             [] id = "x1" -> None
                             [] id = "a2" -> Some("a2")]]

\* _id and subtestId of the n-th subtest document of an assessment
IdTable(parent) ==
    IF parent = "a2" THEN <<"t1", "t2", "t3", "t4">> ELSE <<"s1", "s2", "s3", "s4">>

SubtestIdTable(parent) ==
    IF parent = "a2" THEN <<"v1", "v2", "v3", "v4">> ELSE <<"u1", "u2", "u3", "u4">>

SubtestDoc(kind, parent, n) ==
    [prototype    |-> PrototypeOf(kind),
     _id          |-> IdTable(parent)[n],
     subtestId    |-> SubtestIdTable(parent)[n],
     assessmentId |-> Some(parent),
     curriculumId |-> None,
     levels       |-> IF kind = "location" THEN Some(<<"County", "Zone">>) ELSE None,
     variableName |-> IF kind = "camera" THEN "photo" ELSE Undefined]

\* the value of `data` before any loop has assigned it
NoSubtest ==
    [prototype |-> Undefined, _id |-> Undefined, subtestId |-> Undefined,
     assessmentId |-> None, curriculumId |-> None, levels |-> None,
     variableName |-> Undefined]

\* the subtest list of assessment `parent` whose documents have these kinds
SubtestList(kinds, parent) ==
    [n \in 1..Len(kinds) |-> SubtestDoc(kinds[n], parent, n)]

\* the kinds of the lists getSubtests returns: up to MaxSubtests documents of
\* any kind to invocation 1; to the batch loop's invocation one document, of
\* a kind with an await (grid) or of a kind tested behind the awaits (gps)
KindLists == SeqsUpTo(Kinds, MaxSubtests)
ShortKindLists == {<<"grid">>, <<"gps">>}

KindListsOf(p) == IF p = 1 THEN KindLists ELSE ShortKindLists

\* the same with the survey, grid and gps kinds only
SurveyKindLists == SeqsUpTo({"survey", "grid", "gps"}, MaxSubtests)
SurveyKindListsOf(p) == IF p = 1 THEN SurveyKindLists ELSE ShortKindLists

\* survey question documents: two share an order, one has more than two options
QuestionA == [name |-> "q_a", order |-> 2, options |-> Some(<<"x", "y", "z">>)]
QuestionB == [name |-> "q_b", order |-> 1, options |-> Some(<<"x", "y">>)]
QuestionC == [name |-> "q_c", order |-> 1, options |-> Some(<<>>)]
QuestionD == [name |-> "q_d", order |-> 0, options |-> None]

\* entries of the subtestData of historical result documents
GridEntry(sid, name, var, labels) ==
    [prototype |-> "grid", subtestId |-> sid, name |-> name,
     data |-> [variable_name |-> var,
               items |-> [i \in 1..Len(labels) |-> [itemLabel |-> labels[i]]]]]

OtherEntry ==
    [prototype |-> "survey", subtestId |-> "r0", name |-> "Background",
     data |-> [variable_name |-> None, items |-> <<>>]]

ResultDoc(entries) == [doc |-> [subtestData |-> entries]]

Result1 == ResultDoc(<<OtherEntry, GridEntry("g1", "Letters", Some("letters"), <<"a", "b">>)>>)
Result2 == ResultDoc(<<GridEntry("g1", "Letters", Some("letters"), <<"b", "c">>)>>)
Result3 == ResultDoc(<<GridEntry("g2", "Letter Sound", None, <<>>), OtherEntry>>)

\* the historical results of each assessment: a1 has two results with the same
\* grid, d1 has none, x1 and a2 have one whose grid has no variable_name
ResultsOf(id) ==
    CASE id = "a1" -> <<Result1, Result2>>
      [] id = "d1" -> <<>>
      [] OTHER     -> <<Result3>>

\* the historical results getResults answers with
Results == [id \in AllDocIds |-> ResultsOf(id)]

\* a store: the assessment documents and results above, and the question
\* documents of a survey subtest in the order the store returns them
Store(questions) == [questions |-> questions]

\* the stores the builder is run against
Stores == {Store(<<QuestionA, QuestionC, QuestionB>>)}

\* stores whose survey questions come back in every order, and one with a
\* question that has no options
SurveyStores ==
    {Store(qs) : qs \in UNION {Perms(S) : S \in SUBSET {QuestionA, QuestionB, QuestionC}}}
    \cup {Store(<<QuestionA, QuestionD>>)}

(***************************************************************************)
(* Strings.                                                                *)
(***************************************************************************)

\* String.prototype.toLowerCase on the labels and names of the documents
toLowerCase(s) ==
    CASE s = "County"       -> "county"
      [] s = "Zone"         -> "zone"
      [] s = "Letters"      -> "letters"
      [] s = "Letter Sound" -> "letter sound"
      [] s = "Background"   -> "background"
      [] OTHER              -> s

\* s.replace(/\s/g, '_')
replaceSpaces(s) ==
    CASE s = "letter sound" -> "letter_sound"
      [] s = "Letter Sound" -> "Letter_Sound"
      [] OTHER              -> s

\* a value used as a condition: a missing field and '' are falsy
Truthy(o) == o # None /\ o[1] # ""

\* Suffix without the count > 0 test
SuffixAlways(c) == Some(c)

\* count > 0 ? `_${count}` : ''
Suffix(c) == IF c > 0 THEN Some(c) ELSE None

\* { header: ..., key: ... } with the parts of the two template literals
Col(id, var, hname, kname, opt, num, suf) ==
    [header |-> [var |-> var, name |-> hname, opt |-> opt, num |-> num, suf |-> suf],
     key    |-> [id |-> id, var |-> var, name |-> kname, opt |-> opt, num |-> num,
                 suf |-> suf]]

\* { header: `${name}${suffix}`, key: `${id}.${name}${suffix}` }
Plain(id, name, suf) == Col(id, None, name, name, None, None, suf)

\* { header: `timestamp_${n}`, key: `${id}.timestamp_${n}` }
Timestamp(id, n) == Col(id, None, "timestamp", "timestamp", None, Some(n), None)

(***************************************************************************)
(* The prototype generators.  Each returns [err, cols]: err is None, or    *)
(* the error the generator threw.                                          *)
(***************************************************************************)

Ok(cols) == [err |-> None, cols |-> cols]
Threw(e) == [err |-> Some(e), cols |-> <<>>]

\* let subtestCounts = { locationCount: 0, ..., timestampCount: 0 }
ZeroCounts ==
    [locationCount |-> 0, datetimeCount |-> 0, idCount |-> 0, consentCount |-> 0,
     gpsCount |-> 0, cameraCount |-> 0, surveyCount |-> 0, gridCount |-> 0,
     timestampCount |-> 0]

\* one column per label, then the timestamp column; `labels.length` throws
\* when doc.levels is missing
createLocation(doc, sc) ==
    IF doc.levels = None THEN Threw("TypeError")
    ELSE LET labels == doc.levels[1]
             locSuffix == Suffix(sc.locationCount)
         IN  Ok([i \in 1..Len(labels) |->
                    Col(doc._id, None, labels[i], toLowerCase(labels[i]), None, None,
                        locSuffix)]
                \o <<Timestamp(doc._id, sc.timestampCount)>>)

createDatetime(doc, sc) ==
    LET suffix == Suffix(sc.datetimeCount)
    IN  <<Plain(doc._id, "year", suffix), Plain(doc._id, "month", suffix),
          Plain(doc._id, "day", suffix), Plain(doc._id, "assess_time", suffix),
          Timestamp(doc._id, sc.timestampCount)>>

createConsent(doc, sc) ==
    LET suffix == Suffix(sc.consentCount)
    IN  <<Plain(doc._id, "consent", suffix), Timestamp(doc._id, sc.timestampCount)>>

createId(doc, sc) ==
    LET suffix == Suffix(sc.idCount)
    IN  <<Plain(doc._id, "id", suffix), Timestamp(doc._id, sc.timestampCount)>>

createGps(doc, sc) ==
    LET suffix == Suffix(sc.gpsCount)
    IN  <<Plain(doc._id, "latitude", suffix), Plain(doc._id, "longitude", suffix),
          Plain(doc._id, "accuracy", suffix), Plain(doc._id, "altitude", suffix),
          Plain(doc._id, "altitudeAccuracy", suffix), Plain(doc._id, "heading", suffix),
          Plain(doc._id, "speed", suffix), Timestamp(doc._id, sc.timestampCount)>>

createCamera(doc, sc) ==
    LET suffix == Suffix(sc.cameraCount)
        varName == Some(doc.variableName)
    IN  <<Col(doc.subtestId, varName, "photo_captured", "photo_captured", None, None, suffix),
          Col(doc.subtestId, varName, "photo_url", "photo_url", None, None, suffix),
          Timestamp(doc.subtestId, sc.timestampCount)>>

(***************************************************************************)
(* createSurvey: _.sortBy(questions, [id, 'order']) and the question       *)
(* columns.                                                                *)
(***************************************************************************)

\* the property `key` of a question document: a question has the properties
\* name, order and options, of which only order is a number a subtest id
\* could select; any other key finds nothing
Prop(q, key) == IF key = "order" THEN Some(q.order) ELSE None

\* lodash compareAscending: an undefined value sorts after every defined one
compareAscending(a, b) ==
    CASE a = None /\ b = None -> 0
      [] a = None             -> 1
      [] b = None             -> -1
      [] a[1] > b[1]          -> 1
      [] a[1] < b[1]          -> -1
      [] OTHER                -> 0

RECURSIVE compareMultiple(_, _, _)
\* lodash compareMultiple: the first criterion that tells the two apart
compareMultiple(q, r, keys) ==
    IF keys = <<>> THEN 0
    ELSE LET c == compareAscending(Prop(q, Head(keys)), Prop(r, Head(keys)))
         IN  IF c # 0 THEN c ELSE compareMultiple(q, r, Tail(keys))

RECURSIVE InsertSortedUnstable(_, _, _)
\* InsertSorted with q placed before the elements it ties with
InsertSortedUnstable(sorted, q, keys) ==
    IF sorted = <<>> THEN <<q>>
    ELSE IF compareMultiple(q, Head(sorted), keys) <= 0 THEN <<q>> \o sorted
    ELSE <<Head(sorted)>> \o InsertSortedUnstable(Tail(sorted), q, keys)

RECURSIVE InsertSorted(_, _, _)
\* q placed behind every element that does not compare greater (ties keep
\* their index order, as lodash breaks ties by index)
InsertSorted(sorted, q, keys) ==
    IF sorted = <<>> THEN <<q>>
    ELSE IF compareMultiple(q, Head(sorted), keys) < 0 THEN <<q>> \o sorted
    ELSE <<Head(sorted)>> \o InsertSorted(Tail(sorted), q, keys)

RECURSIVE sortByFrom(_, _, _)
sortByFrom(sorted, rest, keys) ==
    IF rest = <<>> THEN sorted
    ELSE sortByFrom(InsertSorted(sorted, Head(rest), keys), Tail(rest), keys)

\* _.sortBy(collection, keys)
sortBy(collection, keys) == sortByFrom(<<>>, collection, keys)

\* the columns of one question: one column for at most two options, else one
\* column per option index 1..optionsLen
QuestionCols(id, doc, suffix) ==
    LET optionsLen == Len(doc.options[1])
    IN  IF optionsLen <= 2
        THEN <<Col(id, None, doc.name, doc.name, None, None, suffix)>>
        ELSE [i \in 1..optionsLen |->
                 Col(id, None, doc.name, doc.name, Some(i), None, suffix)]

RECURSIVE SurveyLoop(_, _, _)
\* for (doc of sortedDoc) { ... }: `doc.options.length` throws when a question
\* has no options
SurveyLoop(id, sortedDoc, suffix) ==
    IF sortedDoc = <<>> THEN Ok(<<>>)
    ELSE IF Head(sortedDoc).options = None THEN Threw("TypeError")
    ELSE LET rest == SurveyLoop(id, Tail(sortedDoc), suffix)
         IN  IF rest.err # None THEN rest
             ELSE Ok(QuestionCols(id, Head(sortedDoc), suffix) \o rest.cols)

\* createSurvey before its await: the locals it keeps
createSurveyCall(id, sc) == [id |-> id, count |-> sc.surveyCount]

\* createSurvey after getQuestionBySubtestId has answered
createSurvey(locals, sc, questions) ==
    LET id == locals.id
        suffix == Suffix(locals.count)
        sortedDoc == sortBy(questions, <<id, "order">>)
        body == SurveyLoop(id, sortedDoc, suffix)
    IN  IF body.err # None THEN body
        ELSE Ok(body.cols \o <<Timestamp(id, sc.timestampCount)>>)

(***************************************************************************)
(* createGrid.                                                             *)
(***************************************************************************)

RECURSIVE Flatten(_)
Flatten(seqs) == IF seqs = <<>> THEN <<>> ELSE Head(seqs) \o Flatten(Tail(seqs))

\* the grid entries of all result documents, in the store's order
GridData(resultDocs) ==
    Flatten([i \in 1..Len(resultDocs) |->
                SelectSeq(resultDocs[i].doc.subtestData,
                          LAMBDA value : value.prototype = "grid")])

\* sub.data.variable_name || sub.name.toLowerCase().replace(/\s/g, '_')
VariableName(sub) ==
    IF Truthy(sub.data.variable_name) THEN sub.data.variable_name[1]
    ELSE replaceSpaces(toLowerCase(sub.name))

\* the columns of one grid entry: six fixed columns, one per item, the timestamp
GridEntryCols(sub, cnt, ts) ==
    LET suffix == Suffix(cnt)
        var == Some(VariableName(sub))
        items == sub.data.items
        Fixed(name) == Col(sub.subtestId, var, name, name, None, None, suffix)
    IN  <<Fixed("auto_stop"), Fixed("time_remain"), Fixed("capture_item_at_time"),
          Fixed("attempted"), Fixed("time_intermediate_captured"), Fixed("time_allowed")>>
        \o [i \in 1..Len(items) |->
               Col(sub.subtestId, var, items[i].itemLabel, items[i].itemLabel, None, None,
                   suffix)]
        \o <<Timestamp(sub.subtestId, ts)>>

RECURSIVE GridLoopSameCount(_, _, _)
\* GridLoop without count++: every entry gets the suffix of the first
GridLoopSameCount(gridData, cnt, ts) ==
    IF gridData = <<>> THEN [gridHeader |-> <<>>, timestampCount |-> ts]
    ELSE LET rest == GridLoopSameCount(Tail(gridData), cnt, ts + 1)
         IN  [gridHeader |-> GridEntryCols(Head(gridData), cnt, ts) \o rest.gridHeader,
              timestampCount |-> rest.timestampCount]

RECURSIVE GridLoop(_, _, _)
\* for (sub of gridData) { ...; subtestCounts.timestampCount++; count++; }
GridLoop(gridData, cnt, ts) ==
    IF gridData = <<>> THEN [gridHeader |-> <<>>, timestampCount |-> ts]
    ELSE LET rest == GridLoop(Tail(gridData), cnt + 1, ts + 1)
         IN  [gridHeader |-> GridEntryCols(Head(gridData), cnt, ts) \o rest.gridHeader,
              timestampCount |-> rest.timestampCount]

\* createGrid before its await: the locals it keeps
createGridCall(doc, sc) ==
    [id    |-> IF Truthy(doc.assessmentId) THEN doc.assessmentId[1]
               ELSE IF doc.curriculumId # None THEN doc.curriculumId[1] ELSE Undefined,
     count |-> sc.gridCount]

\* createGrid after getResults has answered
createGrid(locals, sc, resultDocs) ==
    GridLoop(GridData(resultDocs), locals.count, sc.timestampCount)

(***************************************************************************)
(* The body of `for (data of subtestData)`.  A local state is              *)
(* [acc, sc, err]: the accumulator, subtestCounts and the error thrown (a  *)
(* statement after a throw does not run).  Every `if` reads the global     *)
(* `data`, passed as d.                                                    *)
(***************************************************************************)

Bump(sc, field) ==
    [sc EXCEPT ![field] = @ + 1, !.timestampCount = @ + 1]

\* concat the generator's columns, count the prototype and the timestamp
Emit(st, cols, field) ==
    [acc |-> st.acc \o cols, sc |-> Bump(st.sc, field), err |-> None]

IfLocation(st, d) ==
    IF st.err # None \/ d.prototype # "location" THEN st
    ELSE LET location == createLocation(d, st.sc)
         IN  IF location.err # None THEN [st EXCEPT !.err = location.err]
             ELSE Emit(st, location.cols, "locationCount")

IfDatetime(st, d) ==
    IF st.err # None \/ d.prototype # "datetime" THEN st
    ELSE Emit(st, createDatetime(d, st.sc), "datetimeCount")

IfConsent(st, d) ==
    IF st.err # None \/ d.prototype # "consent" THEN st
    ELSE Emit(st, createConsent(d, st.sc), "consentCount")

\* IfId taking every subtest without a known prototype as an id subtest
IfIdOrUnknown(st, d) ==
    IF st.err # None
       \/ d.prototype \in {"location", "datetime", "consent", "survey", "grid", "gps",
                            "camera"}
    THEN st
    ELSE Emit(st, createId(d, st.sc), "idCount")

IfId(st, d) ==
    IF st.err # None \/ d.prototype # "id" THEN st
    ELSE Emit(st, createId(d, st.sc), "idCount")

IfGps(st, d) ==
    IF st.err # None \/ d.prototype # "gps" THEN st
    ELSE Emit(st, createGps(d, st.sc), "gpsCount")

IfCamera(st, d) ==
    IF st.err # None \/ d.prototype # "camera" THEN st
    ELSE Emit(st, createCamera(d, st.sc), "cameraCount")

\* data.prototype === 'survey'
SurveyGuard(st, d) == d.prototype = "survey"

\* data.prototype === 'grid' && subtestCounts.gridCount == 0
GridGuard(st, d) == d.prototype = "grid" /\ st.sc.gridCount = 0

\* where a job leaves the loop body: at the end of the body ("next"), at an
\* await ("awaitSurvey", "awaitGrid", with the suspended generator's locals)
\* or at a throw ("threw")
NoLocals == [id |-> Undefined, count |-> 0]
Leave(kind, st, locals) == [kind |-> kind, st |-> st, locals |-> locals]

\* the gps and camera statements, to the end of the body
FromGps(st, d) ==
    LET after == IfCamera(IfGps(st, d), d)
    IN  Leave(IF after.err # None THEN "threw" ELSE "next", after, NoLocals)

\* from the grid statement on
FromGrid(st, d) ==
    IF st.err # None THEN Leave("threw", st, NoLocals)
    ELSE IF GridGuard(st, d) THEN Leave("awaitGrid", st, createGridCall(d, st.sc))
    ELSE FromGps(st, d)

\* from the survey statement on
FromSurvey(st, d) ==
    IF st.err # None THEN Leave("threw", st, NoLocals)
    ELSE IF SurveyGuard(st, d) THEN Leave("awaitSurvey", st, createSurveyCall(d._id, st.sc))
    ELSE FromGrid(st, d)

\* from the top of the body on
FromTop(st, d) ==
    FromSurvey(IfId(IfConsent(IfDatetime(IfLocation(st, d), d), d), d), d)

\* the statements behind `await createSurvey(...)`, then the rest of the body
AfterSurvey(st, locals, questions, d) ==
    LET surveys == createSurvey(locals, st.sc, questions)
    IN  IF surveys.err # None THEN Leave("threw", [st EXCEPT !.err = surveys.err], NoLocals)
        ELSE FromGrid(Emit(st, surveys.cols, "surveyCount"), d)

\* AfterGrid with the grid counted like the other prototypes: one timestamp
\* per grid subtest instead of createGrid's own count
AfterGridOneTimestamp(st, locals, resultDocs, d) ==
    LET grid == createGrid(locals, st.sc, resultDocs)
    IN  FromGps(Emit(st, grid.gridHeader, "gridCount"), d)

\* the statements behind `await createGrid(...)`, then the rest of the body;
\* createGrid has counted the timestamps in subtestCounts itself
AfterGrid(st, locals, resultDocs, d) ==
    LET grid == createGrid(locals, st.sc, resultDocs)
    IN  FromGps([acc |-> st.acc \o grid.gridHeader,
                 sc  |-> [st.sc EXCEPT !.gridCount = @ + 1,
                                       !.timestampCount = grid.timestampCount],
                 err |-> None], d)

\* AssessmentBlock without the assessment suffix
AssessmentBlockUnsuffixed(assessmentId, c) ==
    <<Col(assessmentId, None, "assessment_id", "assessmentId", None, None, None),
      Col(assessmentId, None, "assessment_name", "assessmentName", None, None, None),
      Plain(assessmentId, "enumerator", None),
      Plain(assessmentId, "start_time", None),
      Plain(assessmentId, "order_map", None)>>

\* the five leading columns of an assessment document
AssessmentBlock(assessmentId, c) ==
    LET assessmentSuffix == Suffix(c)
    IN  <<Col(assessmentId, None, "assessment_id", "assessmentId", None, None,
              assessmentSuffix),
          Col(assessmentId, None, "assessment_name", "assessmentName", None, None,
              assessmentSuffix),
          Plain(assessmentId, "enumerator", assessmentSuffix),
          Plain(assessmentId, "start_time", assessmentSuffix),
          Plain(assessmentId, "order_map", assessmentSuffix)>>

\* LeadingColumns without the test of item.assessmentId
LeadingColumnsAlways(doc, c) ==
    AssessmentBlock(IF doc.assessmentId = None THEN Undefined ELSE doc.assessmentId[1], c)

\* if (item.assessmentId) { five pushes }
LeadingColumns(doc, c) ==
    IF Truthy(doc.assessmentId) THEN AssessmentBlock(doc.assessmentId[1], c) ELSE <<>>

\* EndTime without the assessment suffix
EndTimeUnsuffixed(id, c) == Plain(id, "end_time", None)

\* { header: `end_time${assessmentSuffix}`, key: `${docId}.end_time${assessmentSuffix}` }
EndTime(id, c) == Plain(id, "end_time", Suffix(c))

(***************************************************************************)
(* The promise.                                                            *)
(***************************************************************************)

Pending == [state |-> "pending", value |-> <<>>, reason |-> None]

\* resolve(assessments)
Resolved(acc) == [state |-> "fulfilled", value |-> acc, reason |-> None]

\* a catch that resolves with the columns accumulated so far
ResolvedOnError(acc, e) == [state |-> "fulfilled", value |-> acc, reason |-> None]

\* .catch((err) => reject(err))
Rejected(acc, e) == [state |-> "rejected", value |-> <<>>, reason |-> Some(e)]

(***************************************************************************)
(* The invocations of createColumnHeaders.                                 *)
(***************************************************************************)

NoItem == [assessmentId |-> None]

(***************************************************************************)
(* cli.js: the rows the batch loops of create-all iterate over.            *)
(***************************************************************************)

\* most rows a getAll... query answers with
MaxItems == 2

\* the flags of create-all: options.A, options.W, options.R, options.T
Flags == {"A", "W", "R", "T"}

\* the flags whose loop calls createColumnHeaders
HeaderFlags == {"A", "W"}

\* the value of `options` before create-all has run
NotRun == {"notRun"}

\* a row with the fields the loops read: item.doc.assessmentId, item._id,
\* item.assessmentId, item.curriculumId, item.workflowId, item.tripId
Row(id, assessmentId, workflowId, tripId) ==
    [_id |-> id, assessmentId |-> assessmentId, curriculumId |-> None,
     workflowId |-> workflowId, tripId |-> tripId,
     doc |-> [assessmentId |-> IF assessmentId = None THEN Undefined
                               ELSE assessmentId[1]]]

\* the value of the global `item` before any loop has assigned it
NoRow == Row(Undefined, None, None, Undefined)

\* the rows of getAllAssessment, getAllWorkflow and getAllResult; the second
\* workflow row belongs to a workflow, the others to an assessment
RowsOf(flag) ==
    CASE flag = "A" -> <<Row("ra1", Some("a1"), None, Undefined),
                         Row("ra2", Some("a2"), None, Undefined),
                         Row("ra3", Some("a3"), None, Undefined)>>
      [] flag = "R" -> <<Row("rr1", Some("a1"), None, Undefined),
                         Row("rr2", Some("a2"), None, Undefined),
                         Row("rr3", Some("a1"), None, Undefined)>>
      [] OTHER      -> <<Row("rw1", Some("a4"), None, Undefined),
                         Row("rw2", Some("a5"), Some("wf2"), "trip2"),
                         Row("rw3", Some("a6"), None, Undefined)>>

\* what a getAll... query of the flag's loop may answer with
DataOf(flag) ==
    {SubSeq(RowsOf(flag), 1, n) : n \in 0..MaxItems}

\* a loop that has not been started
NoJob == [pc |-> "off", data |-> <<>>, i |-> 0, id |-> Undefined, saveId |-> Undefined]

CliInit ==
    /\ options = NotRun
    /\ cliItem = NoRow
    /\ job = [f \in Flags |-> NoJob]
    /\ dbUrlDefined = FALSE

InitWith(stores) ==
    /\ db \in stores
    /\ data = NoSubtest
    /\ running = 0
    /\ pc = [p \in Inv |-> "idle"]
    /\ docId = [p \in Inv |-> Undefined]
    /\ count = [p \in Inv |-> 0]
    /\ item = [p \in Inv |-> NoItem]
    /\ subtestData = [p \in Inv |-> <<>>]
    /\ iter = [p \in Inv |-> 0]
    /\ assessments = [p \in Inv |-> <<>>]
    /\ subtestCounts = [p \in Inv |-> ZeroCounts]
    /\ pending = [p \in Inv |-> NoLocals]
    /\ promise = [p \in Inv |-> Pending]
    /\ CliInit

Init == InitWith(Stores)

\* createColumnHeaders(id, c, dbUrl): the promise is created and retrieveDoc asked
Call(p) ==
    /\ running = 0
    /\ pc[p] = "idle"
    /\ \E id \in DocIdsOf(p), c \in CountsOf(p) :
          /\ docId' = [docId EXCEPT ![p] = id]
          /\ count' = [count EXCEPT ![p] = c]
    /\ assessments' = [assessments EXCEPT ![p] = <<>>]
    /\ pc' = [pc EXCEPT ![p] = "retrieveDoc"]
    /\ UNCHANGED <<db, data, running, item, subtestData, iter, subtestCounts, pending,
                   promise>>
    /\ UNCHANGED cliVars

\* the job ends with a throw or a rejected store promise, having accumulated
\* acc: .catch rejects
Fail(p, acc, e) ==
    /\ pc' = [pc EXCEPT ![p] = "rejected"]
    /\ promise' = [promise EXCEPT ![p] = Rejected(acc, e)]
    /\ running' = 0

\* .then((item) => { ...; return dbQuery.getSubtests(docId, dbUrl); })
RetrieveDocOk(p) ==
    /\ running = 0
    /\ pc[p] = "retrieveDoc"
    /\ item' = [item EXCEPT ![p] = AssessmentDocs[docId[p]]]
    /\ assessments' = [assessments EXCEPT ![p] = @ \o LeadingColumns(item'[p], count[p])]
    /\ pc' = [pc EXCEPT ![p] = "getSubtests"]
    /\ UNCHANGED <<db, data, running, docId, count, subtestData, iter, subtestCounts,
                   pending, promise>>
    /\ UNCHANGED cliVars

\* retrieveDoc rejects
RetrieveDocFail(p) ==
    /\ running = 0
    /\ pc[p] = "retrieveDoc"
    /\ Fail(p, assessments[p], "NotFoundError")
    /\ UNCHANGED <<db, data, docId, count, item, subtestData, iter, assessments,
                   subtestCounts, pending>>
    /\ UNCHANGED cliVars

\* .then(async(subtestData) => { let subtestCounts = {...}; the loop starts
GetSubtestsOk(p, kindLists) ==
    /\ running = 0
    /\ pc[p] = "getSubtests"
    /\ \E ks \in kindLists :
          subtestData' = [subtestData EXCEPT ![p] = SubtestList(ks, docId[p])]
    /\ subtestCounts' = [subtestCounts EXCEPT ![p] = ZeroCounts]
    /\ iter' = [iter EXCEPT ![p] = 0]
    /\ pc' = [pc EXCEPT ![p] = "loop"]
    /\ running' = p
    /\ UNCHANGED <<db, data, docId, count, item, assessments, pending, promise>>
    /\ UNCHANGED cliVars

\* getSubtests rejects
GetSubtestsFail(p) ==
    /\ running = 0
    /\ pc[p] = "getSubtests"
    /\ Fail(p, assessments[p], "NotFoundError")
    /\ UNCHANGED <<db, data, docId, count, item, subtestData, iter, assessments,
                   subtestCounts, pending>>
    /\ UNCHANGED cliVars

\* the job of invocation p leaves the loop body as `r` says
Continue(p, r) ==
    /\ assessments' = [assessments EXCEPT ![p] = r.st.acc]
    /\ subtestCounts' = [subtestCounts EXCEPT ![p] = r.st.sc]
    /\ pending' = [pending EXCEPT ![p] = r.locals]
    /\ CASE r.kind = "next" ->
              /\ pc' = [pc EXCEPT ![p] = "loop"]
              /\ running' = p
              /\ UNCHANGED promise
         [] r.kind \in {"awaitSurvey", "awaitGrid"} ->
              /\ pc' = [pc EXCEPT ![p] = r.kind]
              /\ running' = 0
              /\ UNCHANGED promise
         [] r.kind = "threw" ->
              Fail(p, r.st.acc, r.st.err[1])

LocalState(p) == [acc |-> assessments[p], sc |-> subtestCounts[p], err |-> None]

\* for (data of subtestData): the iterator hands out the next element, which is
\* assigned to the global `data`, and the body runs to its first await or end
LoopBody(p) ==
    /\ running = p
    /\ pc[p] = "loop"
    /\ iter[p] < Len(subtestData[p])
    /\ iter' = [iter EXCEPT ![p] = @ + 1]
    /\ data' = subtestData[p][iter[p] + 1]
    /\ Continue(p, FromTop(LocalState(p), data'))
    /\ UNCHANGED <<db, docId, count, item, subtestData>>
    /\ UNCHANGED cliVars

\* the iterator is exhausted: end_time is pushed and the promise resolved
LoopEnd(p) ==
    /\ running = p
    /\ pc[p] = "loop"
    /\ iter[p] = Len(subtestData[p])
    /\ assessments' = [assessments EXCEPT ![p] = Append(@, EndTime(docId[p], count[p]))]
    /\ promise' = [promise EXCEPT ![p] = Resolved(assessments'[p])]
    /\ pc' = [pc EXCEPT ![p] = "resolved"]
    /\ running' = 0
    /\ UNCHANGED <<db, data, docId, count, item, subtestData, iter, subtestCounts,
                   pending>>
    /\ UNCHANGED cliVars

\* getQuestionBySubtestId answers: createSurvey finishes and the body goes on
\* with the grid, gps and camera statements, which read the global `data`
SurveyOk(p) ==
    /\ running = 0
    /\ pc[p] = "awaitSurvey"
    /\ Continue(p, AfterSurvey(LocalState(p), pending[p], db.questions, data))
    /\ UNCHANGED <<db, data, docId, count, item, subtestData, iter>>
    /\ UNCHANGED cliVars

\* getQuestionBySubtestId rejects
SurveyFail(p) ==
    /\ running = 0
    /\ pc[p] = "awaitSurvey"
    /\ Fail(p, assessments[p], "StoreError")
    /\ UNCHANGED <<db, data, docId, count, item, subtestData, iter, assessments,
                   subtestCounts, pending>>
    /\ UNCHANGED cliVars

\* getResults answers: createGrid finishes and the body goes on with the gps
\* and camera statements, which read the global `data`
GridOk(p) ==
    /\ running = 0
    /\ pc[p] = "awaitGrid"
    /\ Continue(p, AfterGrid(LocalState(p), pending[p], Results[pending[p].id], data))
    /\ UNCHANGED <<db, data, docId, count, item, subtestData, iter>>
    /\ UNCHANGED cliVars

\* getResults rejects
GridFail(p) ==
    /\ running = 0
    /\ pc[p] = "awaitGrid"
    /\ Fail(p, assessments[p], "StoreError")
    /\ UNCHANGED <<db, data, docId, count, item, subtestData, iter, assessments,
                   subtestCounts, pending>>
    /\ UNCHANGED cliVars

Next ==
    \E p \in Inv :
        \/ Call(p)
        \/ RetrieveDocOk(p)
        \/ RetrieveDocFail(p)
        \/ GetSubtestsOk(p, KindListsOf(p))
        \/ GetSubtestsFail(p)
        \/ LoopBody(p)
        \/ LoopEnd(p)
        \/ SurveyOk(p)
        \/ SurveyFail(p)
        \/ GridOk(p)
        \/ GridFail(p)

Spec == Init /\ [][Next]_vars

\* the builder run against stores that return the survey questions in every order
InitSurvey == InitWith(SurveyStores)

NextSurvey ==
    \E p \in Inv :
        \/ Call(p)
        \/ RetrieveDocOk(p)
        \/ RetrieveDocFail(p)
        \/ GetSubtestsOk(p, SurveyKindListsOf(p))
        \/ GetSubtestsFail(p)
        \/ LoopBody(p)
        \/ LoopEnd(p)
        \/ SurveyOk(p)
        \/ SurveyFail(p)
        \/ GridOk(p)
        \/ GridFail(p)

SpecSurvey == InitSurvey /\ [][NextSurvey]_vars

(***************************************************************************)
(* cli.js: the create-all command.  Its action starts one promise chain    *)
(* per selected flag and awaits none of them; each chain fetches its rows  *)
(* and runs its batch loop, `for (item of data)` with the undeclared,      *)
(* module-wide `item`.  A loop suspends at its two awaits: the generation  *)
(* (createColumnHeaders, processAssessmentResult, processWorkflowResult)   *)
(* and the save.  An action is one job of a chain, from a resumption to    *)
(* the next await.                                                         *)
(***************************************************************************)

\* the body of the flag's loop for `row`, from its top to its first await;
\* j.id keeps the `let` the loop saves under (assessmentId, ref)
Body(f, j, row) ==
    CASE f \in HeaderFlags ->
            [j EXCEPT !.pc = "awaitGenerate", !.id = row.doc.assessmentId]
      [] f = "R" ->
            [j EXCEPT !.pc = "awaitGenerate", !.id = row._id]
      [] f = "T" ->
            IF ~Truthy(row.workflowId) THEN [j EXCEPT !.pc = "awaitGenerate"]
            ELSE IF dbUrlDefined THEN [j EXCEPT !.pc = "awaitGenerate"]
            ELSE [j EXCEPT !.pc = "failed"]

\* the loop of flag f, standing as j says, asks its iterator for the next row:
\* the row is assigned to the global `item` and the body runs to its first
\* await, or the loop ends
Iterate(f, j) ==
    IF j.i = Len(j.data)
    THEN /\ job' = [job EXCEPT ![f] = [j EXCEPT !.pc = "done"]]
         /\ UNCHANGED cliItem
    ELSE /\ cliItem' = j.data[j.i + 1]
         /\ job' = [job EXCEPT ![f] = Body(f, [j EXCEPT !.i = @ + 1], cliItem')]

\* the id the loop passes to its save operation when the generation has
\* resolved: the header and result loops pass their `let`, the workflow-result
\* loop reads item._id or item.tripId from the global `item`
SaveId(f, j) ==
    IF f # "T" THEN j.id
    ELSE IF ~Truthy(j.data[j.i].workflowId) THEN cliItem._id
    ELSE cliItem.tripId

\* .action((options) => {...}): every selected flag starts its getAll... query
CreateAll(opts, defined) ==
    /\ options = NotRun
    /\ options' = opts
    /\ dbUrlDefined' = defined
    /\ job' = [f \in Flags |-> IF f \in opts THEN [NoJob EXCEPT !.pc = "fetch"] ELSE NoJob]
    /\ UNCHANGED cliItem
    /\ UNCHANGED builderVars

\* the getAll... query of flag f answers: .then(async(data) => { await generate...(data)
FetchOk(f) ==
    /\ job[f].pc = "fetch"
    /\ \E d \in DataOf(f) : Iterate(f, [job[f] EXCEPT !.data = d])
    /\ UNCHANGED <<options, dbUrlDefined>>
    /\ UNCHANGED builderVars

\* a rejection or a throw in the chain of flag f: .catch((err) => Error(err))
Abandon(f) ==
    /\ job' = [job EXCEPT ![f].pc = "failed"]
    /\ UNCHANGED <<options, cliItem, dbUrlDefined>>
    /\ UNCHANGED builderVars

\* the getAll... query rejects
FetchFail(f) ==
    /\ job[f].pc = "fetch"
    /\ Abandon(f)

\* the awaited generation resolves: the loop calls its save operation
GenerateOk(f) ==
    /\ job[f].pc = "awaitGenerate"
    /\ job' = [job EXCEPT ![f].pc = "awaitSave", ![f].saveId = SaveId(f, job[f])]
    /\ UNCHANGED <<options, cliItem, dbUrlDefined>>
    /\ UNCHANGED builderVars

\* the awaited generation rejects
GenerateFail(f) ==
    /\ job[f].pc = "awaitGenerate"
    /\ Abandon(f)

\* the save resolves: the loop goes on with the next row
SaveOk(f) ==
    /\ job[f].pc = "awaitSave"
    /\ Iterate(f, job[f])
    /\ UNCHANGED <<options, dbUrlDefined>>
    /\ UNCHANGED builderVars

\* the save rejects
SaveFail(f) ==
    /\ job[f].pc = "awaitSave"
    /\ Abandon(f)

NextCli ==
    \/ \E opts \in SUBSET Flags, defined \in BOOLEAN : CreateAll(opts, defined)
    \/ \E f \in Flags :
          \/ FetchOk(f)
          \/ FetchFail(f)
          \/ GenerateOk(f)
          \/ GenerateFail(f)
          \/ SaveOk(f)
          \/ SaveFail(f)

SpecCli == Init /\ [][NextCli]_vars

(***************************************************************************)
(* What an invocation produces when no other invocation runs: every `if`   *)
(* of the body reads the invocation's own subtest.                         *)
(***************************************************************************)

RECURSIVE SoloBody(_, _)
\* the body run to its end for subtest d, every store lookup answered
SoloBody(r, d) ==
    CASE r.kind = "awaitSurvey" ->
            SoloBody(AfterSurvey(r.st, r.locals, db.questions, d), d)
      [] r.kind = "awaitGrid" ->
            SoloBody(AfterGrid(r.st, r.locals, Results[r.locals.id], d), d)
      [] OTHER -> r.st

RECURSIVE SoloLoop(_, _, _)
SoloLoop(st, list, i) ==
    IF i > Len(list) \/ st.err # None THEN st
    ELSE SoloLoop(SoloBody(FromTop(st, list[i]), list[i]), list, i + 1)

\* the columns invocation p resolves with when it runs alone
SoloOutput(p) ==
    LET start == [acc |-> LeadingColumns(AssessmentDocs[docId[p]], count[p]),
                  sc  |-> ZeroCounts, err |-> None]
    IN  Append(SoloLoop(start, subtestData[p], 1).acc, EndTime(docId[p], count[p]))

(***************************************************************************)
(* Claims.                                                                 *)
(***************************************************************************)

IsTimestamp(col) == col.header.name = "timestamp"

\* the timestamp columns of a column sequence, in output order
TimestampCols(cols) == SelectSeq(cols, IsTimestamp)

Fulfilled(p) == promise[p].state = "fulfilled"

\* C1: the timestamp columns of an invocation, read in output order, are
\* numbered 0, 1, 2, ... : each uses the number after the previous one's, in
\* the header and in the key, so no two share a number
C1_TimestampsConsecutive ==
    \A p \in Inv :
        LET ts == TimestampCols(assessments[p])
        IN  \A i \in 1..Len(ts) :
                /\ ts[i].header.num = <<i - 1>>
                /\ ts[i].key.num = <<i - 1>>

\* C1 witness: an invocation has resolved with the two timestamp columns of a
\* grid with two historical entries and a third timestamp column behind them
C1_Witness ==
    \E p \in Inv :
        /\ Fulfilled(p)
        /\ LET ts == TimestampCols(promise[p].value)
           IN  /\ Len(ts) >= 3
               /\ ts[1].key.id = "g1" /\ ts[1].header.num = <<0>>
               /\ ts[2].key.id = "g1" /\ ts[2].header.num = <<1>>
               /\ ts[3].key.id # "g1" /\ ts[3].header.num = <<2>>

\* C2: an invocation resolves with exactly the column sequence it produces
\* when it runs alone, whatever another invocation does while it is suspended
C2_Isolated ==
    \A p \in Inv : Fulfilled(p) => promise[p].value = SoloOutput(p)

\* C2 is the statement TLC refutes: with invocation 1 suspended in a survey
\* lookup, invocation 2's loop assigns its own subtest to the global `data`,
\* and invocation 1 goes on with the gps and camera statements on it

Recognised == {"location", "datetime", "consent", "id", "survey", "grid", "gps", "camera"}

Last(seq) == seq[Len(seq)]

\* the number of columns of cols whose key starts with id
KeyedBy(cols, id) == Cardinality({i \in 1..Len(cols) : cols[i].key.id = id})

RECURSIVE QuestionColumnCount(_)
\* one column per question with at most two options, else one per option
QuestionColumnCount(questions) ==
    IF questions = <<>> THEN 0
    ELSE (IF Len(Head(questions).options[1]) <= 2 THEN 1
          ELSE Len(Head(questions).options[1]))
         + QuestionColumnCount(Tail(questions))

\* the value v holds the columns of subtest d of invocation p's list
HasColumnsOf(p, v, d) ==
    CASE d.prototype = "location" -> d.levels # None /\ KeyedBy(v, d._id) = Len(d.levels[1]) + 1
      [] d.prototype = "datetime" -> KeyedBy(v, d._id) = 5
      [] d.prototype = "consent"  -> KeyedBy(v, d._id) = 2
      [] d.prototype = "id"       -> KeyedBy(v, d._id) = 2
      [] d.prototype = "gps"      -> KeyedBy(v, d._id) = 8
      [] d.prototype = "camera"   -> KeyedBy(v, d.subtestId) = 3
      [] d.prototype = "survey"   -> KeyedBy(v, d._id) = QuestionColumnCount(db.questions) + 1
      [] d.prototype = "grid"     -> subtestCounts[p].gridCount = 1
      [] OTHER                    -> KeyedBy(v, d._id) = 0 /\ KeyedBy(v, d.subtestId) = 0

\* C3, in every state: a rejected invocation holds the failure and no columns;
\* a fulfilled one has failed nowhere, has taken every subtest of its list
\* from the iterator, holds everything it accumulated, the columns of every
\* subtest of the list among it, and end_time last
C3_State(p) ==
    /\ pc[p] = "rejected" <=> promise[p].state = "rejected"
    /\ pc[p] = "resolved" <=> Fulfilled(p)
    /\ promise[p].state = "rejected" =>
          promise[p].reason # None /\ promise[p].value = <<>>
    /\ Fulfilled(p) =>
          /\ promise[p].reason = None
          /\ iter[p] = Len(subtestData[p])
          /\ promise[p].value = assessments[p]
          /\ Len(promise[p].value) >= 1
          /\ Last(promise[p].value).header.name = "end_time"
          /\ \A n \in 1..Len(subtestData[p]) :
                HasColumnsOf(p, promise[p].value, subtestData[p][n])

Literal(id, hname, kname, suf) ==
    [header |-> [var |-> <<>>, name |-> hname, opt |-> <<>>, num |-> <<>>, suf |-> suf],
     key    |-> [id |-> id, var |-> <<>>, name |-> kname, opt |-> <<>>, num |-> <<>>,
                 suf |-> suf]]

LiteralTimestamp(id, n) ==
    [header |-> [var |-> <<>>, name |-> "timestamp", opt |-> <<>>, num |-> <<n>>,
                 suf |-> <<>>],
     key    |-> [id |-> id, var |-> <<>>, name |-> "timestamp", opt |-> <<>>,
                 num |-> <<n>>, suf |-> <<>>]]

BlockNames == <<"assessment_id", "assessment_name", "enumerator", "start_time", "order_map">>

KeyNames == <<"assessmentId", "assessmentName", "enumerator", "start_time", "order_map">>

GpsNames ==
    <<"latitude", "longitude", "accuracy", "altitude", "altitudeAccuracy", "heading", "speed">>

\* the scenario of C4: assessment a1 with the single gps subtest s1, count 2
C4_Case(p) ==
    /\ Fulfilled(p)
    /\ docId[p] = "a1" /\ item[p].assessmentId = <<"a1">> /\ count[p] = 2
    /\ Len(subtestData[p]) = 1
    /\ subtestData[p][1].prototype = "gps" /\ subtestData[p][1]._id = "s1"

\* C4 as claimed: in the scenario every header and key carries _2, except the
\* timestamp column, which is timestamp_0
C4_AllSuffixed ==
    \A p \in Inv :
        C4_Case(p) =>
            \A i \in 1..Len(promise[p].value) :
                LET col == promise[p].value[i]
                IN  IF IsTimestamp(col) THEN col = LiteralTimestamp("s1", 0)
                    ELSE col.header.suf = <<2>> /\ col.key.suf = <<2>>

\* C4 as amended: in the scenario the five assessment columns and end_time
\* carry _2, the seven gps columns carry no suffix (they are suffixed by
\* gpsCount, which is 0), and the timestamp column is timestamp_0
C4_Scenario ==
    \A p \in Inv :
        C4_Case(p) =>
            promise[p].value =
                [i \in 1..5 |-> Literal("a1", BlockNames[i], KeyNames[i], <<2>>)]
                \o [i \in 1..7 |-> Literal("s1", GpsNames[i], GpsNames[i], <<>>)]
                \o <<LiteralTimestamp("s1", 0),
                     Literal("a1", "end_time", "end_time", <<2>>)>>

C4_Witness == \E p \in Inv : C4_Case(p)

\* the assessment-level columns of a value: those named like the five leading
\* columns or end_time (no subtest column has such a name)
IsAssessmentLevel(col) ==
    \/ col.header.name = "end_time"
    \/ \E i \in 1..5 : col.header.name = BlockNames[i]

Unsuffixed(col) == col.header.suf = <<>> /\ col.key.suf = <<>>

EachGeneratorOnce(p) ==
    /\ \A f \in {"locationCount", "datetimeCount", "idCount", "consentCount", "gpsCount",
                 "cameraCount", "surveyCount", "gridCount"} : subtestCounts[p][f] <= 1
    /\ Cardinality({i \in 1..Len(promise[p].value) :
                        promise[p].value[i].header.name = "auto_stop"}) <= 1

BeginsWithBlock(v) ==
    Len(v) >= 5 /\ \A i \in 1..5 : v[i].header.name = BlockNames[i]

\* C6: a resolved output begins with the five columns assessment_id,
\* assessment_name, enumerator, start_time, order_map, keyed under the loaded
\* document's assessmentId, exactly when the document has an assessmentId;
\* without one the output starts with the subtests' columns (or end_time)
C6_LeadingBlockIff ==
    \A p \in Inv :
        Fulfilled(p) =>
            LET v == promise[p].value
                aid == AssessmentDocs[docId[p]].assessmentId
            IN  /\ BeginsWithBlock(v) <=> aid # <<>>
                /\ aid # <<>> =>
                      SubSeq(v, 1, 5) =
                          [i \in 1..5 |->
                              Literal(aid[1], BlockNames[i], KeyNames[i], Suffix(count[p]))]
                /\ aid = <<>> => \A i \in 1..Len(v) : ~(\E j \in 1..5 : v[i].header.name = BlockNames[j])

\* C6 witness: a document without assessmentId was loaded and the invocation
\* resolved with the columns of a subtest and end_time
C6_Witness ==
    \E p \in Inv :
        /\ Fulfilled(p)
        /\ AssessmentDocs[docId[p]].assessmentId = <<>>
        /\ Len(promise[p].value) > 1

\* invocation p's job is about to take a grid subtest from the iterator
TakesGrid(p) ==
    /\ running = p /\ pc[p] = "loop"
    /\ iter[p] < Len(subtestData[p])
    /\ subtestData[p][iter[p] + 1].prototype = "grid"

\* no subtest of p's list before the one the iterator hands out next is a grid
NoEarlierGrid(p) ==
    \A m \in 1..iter[p] : subtestData[p][m].prototype # "grid"

\* C7: the grid generator runs at most once in an invocation: the first grid
\* subtest of the list calls createGrid (for its own assessment), and a later
\* grid subtest emits no column, starts no store lookup and changes no counter
C7_GridOnce ==
    [][\A p \in Inv :
          TakesGrid(p) =>
              IF NoEarlierGrid(p)
              THEN /\ pc'[p] = "awaitGrid"
                   /\ pending'[p].id = docId[p]
              ELSE /\ pc'[p] = "loop"
                   /\ assessments'[p] = assessments[p]
                   /\ subtestCounts'[p] = subtestCounts[p]]_vars

\* invocation p's job is about to take a subtest with an unrecognised or
\* missing prototype from the iterator
TakesUnknown(p) ==
    /\ running = p /\ pc[p] = "loop"
    /\ iter[p] < Len(subtestData[p])
    /\ subtestData[p][iter[p] + 1].prototype \notin Recognised

\* C8: processing a subtest whose prototype is not recognised or is missing
\* appends no column, leaves every field of subtestCounts unchanged and does
\* not fail: the loop goes on to the next subtest
C8_UnknownSkipped ==
    [][\A p \in Inv :
          TakesUnknown(p) =>
              /\ iter'[p] = iter[p] + 1
              /\ assessments'[p] = assessments[p]
              /\ subtestCounts'[p] = subtestCounts[p]
              /\ pc'[p] = "loop"
              /\ promise'[p] = promise[p]]_vars

\* C8 witness: the loop has just skipped a subtest without a recognised
\* prototype, behind a subtest that emitted columns and counted
C8_Witness ==
    \E p \in Inv :
        /\ running = p /\ pc[p] = "loop"
        /\ iter[p] = 2
        /\ subtestData[p][2].prototype \notin Recognised
        /\ subtestCounts[p].timestampCount = 1
        /\ KeyedBy(assessments[p], subtestData[p][2]._id) = 0

\* C9: the last column of a resolved output is end_time, keyed
\* <docId>.end_time<suffix> with the caller's docId and the suffix of the
\* caller's count, and no other column is headed end_time; the five leading
\* columns are keyed under the loaded document's assessmentId
C9_EndTimeLast ==
    \A p \in Inv :
        Fulfilled(p) =>
            LET v == promise[p].value
            IN  /\ Len(v) >= 1
                /\ v[Len(v)] = Literal(docId[p], "end_time", "end_time",
                                       IF count[p] > 0 THEN <<count[p]>> ELSE <<>>)
                /\ \A i \in 1..(Len(v) - 1) : v[i].header.name # "end_time"
                /\ \A i \in 1..(Len(v) - 1) :
                      IsAssessmentLevel(v[i]) => v[i].key.id = item[p].assessmentId[1]

\* C9 witness: docId d1 loaded a document whose assessmentId is a1, the
\* subtest list was empty, and the output is the five columns keyed a1 and
\* end_time keyed d1
C9_Witness ==
    \E p \in Inv :
        /\ Fulfilled(p)
        /\ docId[p] = "d1" /\ subtestData[p] = <<>> /\ count[p] = 2
        /\ Len(promise[p].value) = 6
        /\ promise[p].value[1].key.id = "a1"
        /\ promise[p].value[6].key.id = "d1"

\* the place of the question named `name` in the store's answer
StorePlace(name) ==
    CHOOSE k \in 1..Len(db.questions) : db.questions[k].name = name

\* the question columns of survey subtest sid in cols, in output order
QuestionCols_Of(cols, sid) ==
    SelectSeq(cols, LAMBDA c : c.key.id = sid /\ ~IsTimestamp(c))

\* C10: the question columns of a survey subtest stand in ascending order of
\* the questions' order field, in whatever order the store returned the
\* questions, and questions of equal order stand in the store's order
C10_SurveySorted ==
    \A p \in Inv :
        \A n \in 1..Len(subtestData[p]) :
            subtestData[p][n].prototype = "survey" =>
                LET cols == QuestionCols_Of(assessments[p], subtestData[p][n]._id)
                IN  \A i, j \in 1..Len(cols) :
                        i < j =>
                            LET a == StorePlace(cols[i].header.name)
                                b == StorePlace(cols[j].header.name)
                            IN  \/ db.questions[a].order < db.questions[b].order
                                \/ /\ db.questions[a].order = db.questions[b].order
                                   /\ a <= b

\* C10 witness: the store returned q_a (order 2), q_c (order 1), q_b (order 1)
\* and the invocation resolved with the columns q_c, q_b, q_a_1, q_a_2, q_a_3
C10_Witness ==
    \E p \in Inv :
        /\ Fulfilled(p)
        /\ db.questions = <<QuestionA, QuestionC, QuestionB>>
        /\ \E n \in 1..Len(subtestData[p]) :
              /\ subtestData[p][n].prototype = "survey"
              /\ LET cols == QuestionCols_Of(promise[p].value, subtestData[p][n]._id)
                 IN  /\ Len(cols) = 5
                     /\ [i \in 1..5 |-> cols[i].header.name]
                            = <<"q_c", "q_b", "q_a", "q_a", "q_a">>
                     /\ [i \in 1..5 |-> cols[i].header.opt]
                            = <<<<>>, <<>>, <<1>>, <<2>>, <<3>>>>

(***************************************************************************)
(* C11: the item columns of a grid.                                        *)
(***************************************************************************)

\* col is a column of the item `label` of grid entry sub, under any suffix
IsItemCol(col, sub, label) ==
    /\ col.key.id = sub.subtestId
    /\ col.header.var = Some(VariableName(sub))
    /\ col.header.name = label /\ col.key.name = label

\* how many columns of cols satisfy Test
CountCols(cols, Test(_)) == Cardinality({j \in 1..Len(cols) : Test(cols[j])})

\* the labels of the items of grid entry sub
LabelsOf(sub) == {sub.data.items[i].itemLabel : i \in 1..Len(sub.data.items)}

\* entries e and f are the same grid: same subtest, same variable name
SameGrid(e, f) == e.subtestId = f.subtestId /\ VariableName(e) = VariableName(f)

\* invocation p holds the columns createGrid made from these grid entries
GridRanOver(p, entries) ==
    \E j \in 1..Len(assessments[p]), k \in 1..Len(entries) :
        assessments[p][j].key.id = entries[k].subtestId

\* C11 as claimed: every item of a grid that occurs in any historical result of
\* the assessment has exactly one item column, also when two results hold the
\* same grid (same variable_name) with different item sets
C11_ItemsOnce ==
    \A p \in Inv, id \in AllDocIds :
        LET entries == GridData(Results[id])
        IN  GridRanOver(p, entries) =>
                \A k \in 1..Len(entries) :
                    \A label \in LabelsOf(entries[k]) :
                        CountCols(assessments[p],
                                  LAMBDA col : IsItemCol(col, entries[k], label)) = 1

\* C11 as amended: no item of any historical result is missing, and an item
\* has one column per historical grid entry that holds it: the entry's
\* occurrence k (counted from 0 over the grid entries of all results) gives
\* the column the suffix of k, so an item held by two results of the same grid
\* is emitted twice, under two different suffixes
C11_ItemsPerOccurrence ==
    \A p \in Inv, id \in AllDocIds :
        LET entries == GridData(Results[id])
        IN  GridRanOver(p, entries) =>
                \A k \in 1..Len(entries) :
                    \A label \in LabelsOf(entries[k]) :
                        /\ CountCols(assessments[p],
                                     LAMBDA col : /\ IsItemCol(col, entries[k], label)
                                                  /\ col.header.suf = Suffix(k - 1)
                                                  /\ col.key.suf = Suffix(k - 1)) = 1
                        /\ CountCols(assessments[p],
                                     LAMBDA col : IsItemCol(col, entries[k], label))
                             = Cardinality({m \in 1..Len(entries) :
                                               /\ SameGrid(entries[m], entries[k])
                                               /\ label \in LabelsOf(entries[m])})

\* the number of columns of invocation p's output for item `label` of the
\* grid "letters" under suffix suf
LettersCols(p, label, suf) ==
    CountCols(promise[p].value,
              LAMBDA col : /\ col.key.id = "g1" /\ col.header.var = <<"letters">>
                           /\ col.header.name = label /\ col.header.suf = suf)

\* C11 witness: an invocation resolved with the grid columns of assessment a1,
\* whose two results hold the grid "letters" with the items a, b and b, c: the
\* output holds letters_a, letters_b, letters_b_1 and letters_c_1
C11_Witness ==
    \E p \in Inv :
        /\ Fulfilled(p)
        /\ LettersCols(p, "a", <<>>) = 1 /\ LettersCols(p, "a", <<1>>) = 0
        /\ LettersCols(p, "b", <<>>) = 1 /\ LettersCols(p, "b", <<1>>) = 1
        /\ LettersCols(p, "c", <<>>) = 0 /\ LettersCols(p, "c", <<1>>) = 1

(***************************************************************************)
(* C12, C14: the batch loops of create-all.                                *)
(***************************************************************************)

\* the createColumnHeaders invocations in flight: the header loops suspended
\* at `await createColumnHeaders(...)`
InFlight == {f \in HeaderFlags : job[f].pc = "awaitGenerate"}

\* C12: during a run of create-all, whatever flags it was given, at most one
\* createColumnHeaders invocation is in flight at any moment
C12_OneInFlight == Cardinality(InFlight) <= 1

\* the id of the row a loop's generation was started from, as the loop's save
\* operation takes it
OwnId(f, row) ==
    CASE f \in HeaderFlags -> row.doc.assessmentId
      [] f = "R" -> row._id
      [] f = "T" -> IF Truthy(row.workflowId) THEN row.tripId ELSE row._id

\* C14: in every interleaving of the loops the flags start, a loop that has
\* called its save operation passed the id of the row whose generation it
\* awaited
C14_SavedUnderOwnId ==
    \A f \in Flags :
        job[f].pc = "awaitSave" => job[f].saveId = OwnId(f, job[f].data[job[f].i])

(***************************************************************************)
(* C13: the per-prototype counters and suffixes.                           *)
(***************************************************************************)

\* the prototypes with one generator run per subtest, and their counters
Counted == {"location", "datetime", "consent", "id", "survey", "gps", "camera"}

CounterOf(prototype) ==
    CASE prototype = "location" -> "locationCount"
      [] prototype = "datetime" -> "datetimeCount"
      [] prototype = "consent"  -> "consentCount"
      [] prototype = "id"       -> "idCount"
      [] prototype = "survey"   -> "surveyCount"
      [] prototype = "gps"      -> "gpsCount"
      [] prototype = "camera"   -> "cameraCount"

\* how many of the first n subtests of invocation p's list have this prototype
Occurrences(p, prototype, n) ==
    Cardinality({m \in 1..n : subtestData[p][m].prototype = prototype})

\* the id the columns of subtest d are keyed under
KeyIdOf(d) == IF d.prototype = "camera" THEN d.subtestId ELSE d._id

\* C13: in one invocation, between two iterations of the loop each of the
\* seven counters equals the number of subtests of its prototype the loop has
\* processed, and the value columns of the k-th subtest of a prototype in the
\* list (k counted from 0) carry no suffix when k = 0 and _k when k > 0,
\* whatever the assessment-level count, timestampCount and the subtests of
\* other prototypes in between
C13_SuffixIsOccurrence ==
    \A p \in Inv :
        /\ pc[p] \in {"loop", "resolved"} =>
              \A prototype \in Counted :
                  subtestCounts[p][CounterOf(prototype)]
                      = Occurrences(p, prototype, iter[p])
        /\ \A n \in 1..iter[p] :
              LET d == subtestData[p][n]
              IN  d.prototype \in Counted =>
                      \A j \in 1..Len(assessments[p]) :
                          LET col == assessments[p][j]
                          IN  col.key.id = KeyIdOf(d) /\ ~IsTimestamp(col) =>
                                  /\ col.header.suf = Suffix(Occurrences(p, d.prototype, n - 1))
                                  /\ col.key.suf = Suffix(Occurrences(p, d.prototype, n - 1))

====
